---- MODULE Spec2Model ----
(***************************************************************************)
(* Model of client/commands/incremental.py: the Incremental command.       *)
(*                                                                         *)
(* One orchestration cycle is one call of Incremental._run.  The main      *)
(* thread is modelled by pc, stepping at every call _run makes into a      *)
(* collaborator (_state, Start.run, _flags, _call_client, result.check).    *)
(* The log-tail reader (_read_stderr) runs on a thread of its own, one per  *)
(* _call_client, and is modelled by thread/tailProc/hooks.                  *)
(*                                                                         *)
(* Strings are sequences of one-character strings, so that str() and        *)
(* ",".join() are computed character by character.                          *)
(***************************************************************************)
EXTENDS Integers, Sequences, FiniteSets, TLC

\* ---------------------------------------------------------------- bounds
MaxCycles == 2

\* ------------------------------------------------------- program constants
SUCCESS == 0
FAILURE == 1

\* Incremental.NAME
NAME == <<"i","n","c","r","e","m","e","n","t","a","l">>

TYPESHED_FLAG == <<"-","t","y","p","e","s","h","e","d">>
VERSION_FLAG ==
  <<"-","e","x","p","e","c","t","e","d","-","b","i","n","a","r","y","-",
    "v","e","r","s","i","o","n">>
SEARCH_PATH_FLAG == <<"-","s","e","a","r","c","h","-","p","a","t","h">>
COMMA == <<",">>

\* State of command.py: only DEAD is told apart by _run.
DEAD == "DEAD"
ServerState == {"DEAD", "RUNNING"}

\* What a probe finds on disk: the marker of a live server, none, or one it
\* cannot read (stale or corrupt).
Markers == {"live", "absent", "corrupt"}

\* self._state(): a marker that cannot be read counts as no server.
State(marker) == IF marker = "live" THEN "RUNNING" ELSE DEAD

\* Log messages of _run.
MSG_STARTING == "Starting server at %s."
MSG_WAITING == "Waiting for server..."
MSG_ERROR == "Error while waiting for server."
MSG_RESTART == "Run %s restart in order to restart the server."

\* ------------------------------------------------------------ input sets
\* A Python value that is either None or a string.
None == [tag |-> "none", val |-> <<>>]
S(chars) == [tag |-> "str", val |-> chars]

TypeshedValues == {None, S(<<"/","t","s">>)}
VersionValues == {S(<<"a","b","c">>)}
PathA == <<"/","a">>
PathB == <<"/","b">>
SearchPaths ==
  {<<>>, <<PathA>>, <<PathB>>, <<PathA, PathB>>, <<PathB, PathA>>,
   <<PathA, PathB, PathA>>}
Configurations ==
  [typeshed : TypeshedValues, version_hash : VersionValues,
   search_path : SearchPaths]

\* The flags the command object holds before _run adds its own.
BaseFlags == {<<>>, << <<"-","d","e","b","u","g">> >>}

Arguments == [terminal : BOOLEAN, no_watchman : BOOLEAN]

Diagnostics == {"d1", "d2"}
\* What _call_client returns: a result whose check() passes or raises,
\* carrying the diagnostic records of the response.
ErrorLists == {<<>>, <<"d1">>, <<"d1", "d2">>, <<"d2", "d1">>}
Results == [valid : BOOLEAN, errors : ErrorLists]

StartOutcomes == {"started", "failed", "raise"}

VARIABLES
  pc,            \* position of the main thread in _run
  cycle,         \* number of the current call of _run
  arguments,     \* self._arguments (the caller's object, shared)
  configuration, \* self._configuration
  baseFlags,     \* what self._flags() is computed from
  marker1,       \* the liveness marker the probe of line 39 found, <<>> before it
  state1,        \* result of the probe of line 39, <<>> before it
  state2,        \* result of the probe of line 60, <<>> before it
  flags,         \* local variable flags of _run
  result,        \* local variable result of _run, <<>> before line 63 returns
  trace,         \* calls made by this cycle, in order
  startArgs,     \* the arguments Start was constructed with in this cycle
  startOutcome,  \* how Start.run ended in this cycle
  sent,          \* requests handed to _call_client, over all cycles
  log,           \* LOG records of this cycle
  printed,       \* what self._print was given in this cycle, <<>> if not called
  returned,      \* <<exit code>> once _run returned
  raised,        \* the exception that left _run, "none" otherwise
  argsAtStart,   \* arguments when the cycle began
  thread,        \* per _call_client: position of its _read_stderr thread
  tailProc,      \* per _call_client: its `tail -f` process
  hooks          \* tail processes whose terminate is registered with atexit

vars ==
  <<marker1, pc, cycle, arguments, configuration, baseFlags, state1, state2, flags,
    result, trace, startArgs, startOutcome, sent, log, printed, returned,
    raised, argsAtStart, thread, tailProc, hooks>>

Calls == 1..MaxCycles

\* ------------------------------------------------------- pure functions
\* Number of occurrences of x in seq.
Count(seq, x) == Cardinality({i \in DOMAIN seq : seq[i] = x})

\* str(x)
Str(v) == IF v.tag = "none" THEN <<"N","o","n","e">> ELSE v.val

\* sep.join(parts)
RECURSIVE Join(_, _)
Join(sep, parts) ==
  IF Len(parts) = 0 THEN <<>>
  ELSE IF Len(parts) = 1 THEN parts[1]
  ELSE parts[1] \o sep \o Join(sep, Tail(parts))

\* self._flags(): a fresh list of the flags the object holds.
Flags == baseFlags

\* Mutant: the search-path pair is appended before the typeshed and
\* version pairs.
ExtendFlagsSearchPathFirst(fl, conf) ==
  LET withSearch ==
        IF Len(conf.search_path) > 0
        THEN fl \o << SEARCH_PATH_FLAG, Join(COMMA, conf.search_path) >>
        ELSE fl
  IN withSearch \o << TYPESHED_FLAG, Str(conf.typeshed),
                      VERSION_FLAG, Str(conf.version_hash) >>

\* Mutant: the test of line 57 left out.
ExtendFlagsUnguarded(fl, conf) ==
  fl \o << TYPESHED_FLAG, Str(conf.typeshed),
           VERSION_FLAG, Str(conf.version_hash),
           SEARCH_PATH_FLAG, Join(COMMA, conf.search_path) >>

\* Mutant: the list extended is the one the previous cycle extended, as if
\* _run extended a list the object keeps.
ExtendFlagsAccumulating(fl, conf) ==
  LET kept == IF sent = <<>> THEN fl ELSE Tail(sent[Len(sent)])
      withVersion ==
        kept \o << TYPESHED_FLAG, Str(conf.typeshed),
                   VERSION_FLAG, Str(conf.version_hash) >>
  IN IF Len(conf.search_path) > 0
     THEN withVersion \o << SEARCH_PATH_FLAG, Join(COMMA, conf.search_path) >>
     ELSE withVersion

\* Lines 47-58: the tokens _run appends to flags.
ExtendFlags(fl, conf) ==
  LET withVersion ==
        fl \o << TYPESHED_FLAG, Str(conf.typeshed),
                 VERSION_FLAG, Str(conf.version_hash) >>
  IN IF Len(conf.search_path) > 0
     THEN withVersion \o << SEARCH_PATH_FLAG, Join(COMMA, conf.search_path) >>
     ELSE withVersion

\* Mutant: line 43 left out, the caller's no_watchman is kept.
BootstrapArgumentsKeepWatchman(args) == [args EXCEPT !.terminal = FALSE]

\* Lines 41-43: the arguments object after _run prepares it for Start.
BootstrapArguments(args) ==
  [args EXCEPT !.terminal = FALSE, !.no_watchman = FALSE]

\* Mutant: the test of line 39 inverted.
ShouldBootstrapInverted(state) == state # DEAD

\* Line 39.
ShouldBootstrap(state) == state = DEAD

\* The command line _call_client(command, flags) runs.
Request(command, fl) == <<command>> \o fl

\* Mutant: the exit hooks terminate nothing.
AtExitNone(procs, registered) == procs

\* atexit: every registered terminate is called.
AtExit(procs, registered) ==
  [c \in DOMAIN procs |->
     IF c \in registered /\ procs[c] = "running" THEN "terminated" ELSE procs[c]]

\* -------------------------------------------------------------- initial
Init ==
  /\ pc = "INIT"
  /\ cycle = 1
  /\ arguments \in Arguments
  /\ configuration \in Configurations
  /\ baseFlags \in BaseFlags
  /\ marker1 = <<>>
  /\ state1 = <<>>
  /\ state2 = <<>>
  /\ flags = <<>>
  /\ result = <<>>
  /\ trace = <<>>
  /\ startArgs = <<>>
  /\ startOutcome = <<>>
  /\ sent = <<>>
  /\ log = <<>>
  /\ printed = <<>>
  /\ returned = <<>>
  /\ raised = "none"
  /\ argsAtStart = arguments
  /\ thread = [c \in Calls |-> "none"]
  /\ tailProc = [c \in Calls |-> "none"]
  /\ hooks = {}

threadVars == <<thread, tailProc, hooks>>
objectVars == <<configuration, baseFlags>>

\* ------------------------------------------------------------ main thread
\* Lines 39-43: probe; on DEAD log and prepare the arguments for Start.
Probe ==
  /\ pc = "INIT"
  /\ \E m \in Markers :
       /\ marker1' = <<m>>
       /\ state1' = <<State(m)>>
       /\ IF ShouldBootstrap(State(m))
          THEN /\ log' = Append(log, MSG_STARTING)
               /\ arguments' = BootstrapArguments(arguments)
               /\ pc' = "BOOTSTRAPPING"
          ELSE /\ UNCHANGED <<log, arguments>>
               /\ pc' = "BUILDING"
  /\ trace' = Append(trace, "probe")
  /\ UNCHANGED <<cycle, state2, flags, result, startArgs, startOutcome, sent,
                 printed, returned, raised, argsAtStart>>
  /\ UNCHANGED threadVars
  /\ UNCHANGED objectVars

\* Mutant: line 44 wrapped in a try that turns any failure of Start into
\* exit code FAILURE.
StartRunCaught ==
  /\ pc = "BOOTSTRAPPING"
  /\ \E o \in StartOutcomes :
       /\ startOutcome' = Append(startOutcome, o)
       /\ IF o = "started"
          THEN pc' = "BUILDING" /\ UNCHANGED <<returned, log>>
          ELSE /\ pc' = "DONE"
               /\ returned' = <<FAILURE>>
               /\ log' = Append(log, MSG_ERROR)
  /\ startArgs' = Append(startArgs, arguments)
  /\ trace' = Append(trace, "start")
  /\ UNCHANGED <<cycle, arguments, state1, state2, flags, result, sent,
                 printed, raised, argsAtStart>>
  /\ UNCHANGED threadVars
  /\ UNCHANGED objectVars
  /\ UNCHANGED marker1

\* Line 44: Start(arguments, ...).run(); its return value is dropped, an
\* exception it raises leaves _run.
StartRun ==
  /\ pc = "BOOTSTRAPPING"
  /\ \E o \in StartOutcomes :
       /\ startOutcome' = Append(startOutcome, o)
       /\ IF o = "raise"
          THEN pc' = "RAISED" /\ raised' = "BootstrapError"
          ELSE pc' = "BUILDING" /\ UNCHANGED raised
  /\ startArgs' = Append(startArgs, arguments)
  /\ trace' = Append(trace, "start")
  /\ UNCHANGED <<cycle, arguments, state1, state2, flags, result, sent, log,
                 printed, returned, argsAtStart>>
  /\ UNCHANGED threadVars
  /\ UNCHANGED objectVars
  /\ UNCHANGED marker1

\* Lines 46-58.
Build ==
  /\ pc = "BUILDING"
  /\ flags' = ExtendFlags(Flags, configuration)
  /\ pc' = "PROBING2"
  /\ UNCHANGED <<cycle, arguments, state1, state2, result, trace, startArgs,
                 startOutcome, sent, log, printed, returned, raised,
                 argsAtStart>>
  /\ UNCHANGED threadVars
  /\ UNCHANGED objectVars
  /\ UNCHANGED marker1

\* Mutant: the request waits until the second probe finds the server; a
\* DEAD result is probed again.
Probe2WaitsForServer ==
  /\ pc = "PROBING2"
  /\ \E m \in Markers :
       /\ state2' = <<State(m)>>
       /\ log' = IF State(m) # DEAD THEN Append(log, MSG_WAITING) ELSE log
       /\ pc' = IF State(m) # DEAD THEN "REQUESTING" ELSE "PROBING2"
       /\ trace' = IF State(m) # DEAD /\ state2 = <<>>
                   THEN Append(trace, "probe") ELSE trace
  /\ UNCHANGED <<cycle, arguments, state1, flags, result, startArgs,
                 startOutcome, sent, printed, returned, raised, argsAtStart>>
  /\ UNCHANGED threadVars
  /\ UNCHANGED objectVars
  /\ UNCHANGED marker1

\* Mutant: a server found DEAD by the second probe is started too.
Probe2Bootstraps ==
  /\ pc = "PROBING2"
  /\ \E m \in Markers :
       /\ state2' = <<State(m)>>
       /\ log' = IF State(m) # DEAD THEN Append(log, MSG_WAITING) ELSE log
       /\ pc' = IF State(m) = DEAD /\ state2 = <<>>
                THEN "BOOTSTRAPPING" ELSE "REQUESTING"
  /\ trace' = Append(trace, "probe")
  /\ UNCHANGED <<cycle, arguments, state1, flags, result, startArgs,
                 startOutcome, sent, printed, returned, raised, argsAtStart>>
  /\ UNCHANGED threadVars
  /\ UNCHANGED objectVars
  /\ UNCHANGED marker1

\* Lines 60-61.
Probe2 ==
  /\ pc = "PROBING2"
  /\ \E m \in Markers :
       /\ state2' = <<State(m)>>
       /\ log' = IF State(m) # DEAD THEN Append(log, MSG_WAITING) ELSE log
  /\ trace' = Append(trace, "probe")
  /\ pc' = "REQUESTING"
  /\ UNCHANGED <<cycle, arguments, state1, flags, result, startArgs,
                 startOutcome, sent, printed, returned, raised, argsAtStart>>
  /\ UNCHANGED threadVars
  /\ UNCHANGED objectVars
  /\ UNCHANGED marker1

\* Line 63, entry: _call_client(command=NAME, flags=flags) sends the request
\* and starts the thread that runs self._read_stderr.
CallClient ==
  /\ pc = "REQUESTING"
  /\ sent' = Append(sent, Request(NAME, flags))
  /\ thread' = [thread EXCEPT ![cycle] = "started"]
  /\ trace' = Append(trace, "call")
  /\ pc' = "WAITING"
  /\ UNCHANGED <<cycle, arguments, state1, state2, flags, result, startArgs,
                 startOutcome, log, printed, returned, raised, argsAtStart,
                 tailProc, hooks>>
  /\ UNCHANGED objectVars
  /\ UNCHANGED marker1

\* Line 63, exit: _call_client returns a result.
CallClientReturn ==
  /\ pc = "WAITING"
  /\ \E r \in Results : result' = <<r>>
  /\ pc' = "CLASSIFYING"
  /\ UNCHANGED <<cycle, arguments, state1, state2, flags, trace, startArgs,
                 startOutcome, sent, log, printed, returned, raised,
                 argsAtStart>>
  /\ UNCHANGED threadVars
  /\ UNCHANGED objectVars
  /\ UNCHANGED marker1

\* Line 63, exit: _call_client raises; line 63 is outside the try.
CallClientRaise ==
  /\ pc = "WAITING"
  /\ raised' = "ClientException"
  /\ pc' = "RAISED"
  /\ UNCHANGED <<cycle, arguments, state1, state2, flags, result, trace,
                 startArgs, startOutcome, sent, log, printed, returned,
                 argsAtStart>>
  /\ UNCHANGED threadVars
  /\ UNCHANGED objectVars
  /\ UNCHANGED marker1

\* result.check(): raises ClientException unless the result is valid.
CheckRaises(r) == ~r.valid

\* self._get_errors(result): the diagnostic records of the result.
GetErrors(r) == r.errors

\* Mutant: the result is classified only once the log-tail reader has got
\* as far as reading.
ClassifyAfterTail ==
  /\ pc = "CLASSIFYING"
  /\ thread[cycle] = "reading"
  /\ IF CheckRaises(result[1])
     THEN /\ log' = log \o <<MSG_ERROR, MSG_RESTART>>
          /\ returned' = <<FAILURE>>
          /\ UNCHANGED printed
     ELSE /\ printed' = Append(printed, GetErrors(result[1]))
          /\ returned' = <<SUCCESS>>
          /\ UNCHANGED log
  /\ pc' = "DONE"
  /\ UNCHANGED <<cycle, arguments, state1, state2, flags, result, trace,
                 startArgs, startOutcome, sent, raised, argsAtStart>>
  /\ UNCHANGED threadVars
  /\ UNCHANGED objectVars
  /\ UNCHANGED marker1

\* Mutant: line 72 left out and nothing returned on the failure path.
ClassifyNoReturn ==
  /\ pc = "CLASSIFYING"
  /\ IF CheckRaises(result[1])
     THEN /\ log' = log \o <<MSG_ERROR, MSG_RESTART>>
          /\ UNCHANGED <<printed, returned>>
     ELSE /\ printed' = Append(printed, GetErrors(result[1]))
          /\ returned' = <<SUCCESS>>
          /\ UNCHANGED log
  /\ pc' = "DONE"
  /\ UNCHANGED <<cycle, arguments, state1, state2, flags, result, trace,
                 startArgs, startOutcome, sent, raised, argsAtStart>>
  /\ UNCHANGED threadVars
  /\ UNCHANGED objectVars
  /\ UNCHANGED marker1

\* Mutant: line 71 left out.
ClassifyNoGuidance ==
  /\ pc = "CLASSIFYING"
  /\ IF CheckRaises(result[1])
     THEN /\ log' = Append(log, MSG_ERROR)
          /\ returned' = <<FAILURE>>
          /\ UNCHANGED printed
     ELSE /\ printed' = Append(printed, GetErrors(result[1]))
          /\ returned' = <<SUCCESS>>
          /\ UNCHANGED log
  /\ pc' = "DONE"
  /\ UNCHANGED <<cycle, arguments, state1, state2, flags, result, trace,
                 startArgs, startOutcome, sent, raised, argsAtStart>>
  /\ UNCHANGED threadVars
  /\ UNCHANGED objectVars
  /\ UNCHANGED marker1

\* Mutant: line 68 left out.
ClassifyNoPrint ==
  /\ pc = "CLASSIFYING"
  /\ IF CheckRaises(result[1])
     THEN /\ log' = log \o <<MSG_ERROR, MSG_RESTART>>
          /\ returned' = <<FAILURE>>
     ELSE /\ returned' = <<SUCCESS>>
          /\ UNCHANGED log
  /\ pc' = "DONE"
  /\ UNCHANGED <<cycle, arguments, state1, state2, flags, result, trace,
                 startArgs, startOutcome, sent, printed, raised, argsAtStart>>
  /\ UNCHANGED threadVars
  /\ UNCHANGED objectVars
  /\ UNCHANGED marker1

\* Mutant: the failed request is sent again instead of returning FAILURE.
ClassifyRetry ==
  /\ pc = "CLASSIFYING"
  /\ IF CheckRaises(result[1])
     THEN /\ log' = log \o <<MSG_ERROR, MSG_RESTART>>
          /\ pc' = "REQUESTING"
          /\ result' = <<>>
          /\ UNCHANGED <<printed, returned>>
     ELSE /\ printed' = Append(printed, GetErrors(result[1]))
          /\ returned' = <<SUCCESS>>
          /\ pc' = "DONE"
          /\ UNCHANGED <<log, result>>
  /\ UNCHANGED <<cycle, arguments, state1, state2, flags, trace,
                 startArgs, startOutcome, sent, raised, argsAtStart>>
  /\ UNCHANGED threadVars
  /\ UNCHANGED objectVars
  /\ UNCHANGED marker1

\* Lines 65-74.
Classify ==
  /\ pc = "CLASSIFYING"
  /\ IF CheckRaises(result[1])
     THEN /\ log' = log \o <<MSG_ERROR, MSG_RESTART>>
          /\ returned' = <<FAILURE>>
          /\ UNCHANGED printed
     ELSE /\ printed' = Append(printed, GetErrors(result[1]))
          /\ returned' = <<SUCCESS>>
          /\ UNCHANGED log
  /\ pc' = "DONE"
  /\ UNCHANGED <<cycle, arguments, state1, state2, flags, result, trace,
                 startArgs, startOutcome, sent, raised, argsAtStart>>
  /\ UNCHANGED threadVars
  /\ UNCHANGED objectVars
  /\ UNCHANGED marker1

\* The caller runs the command object again: a new call of _run.
NextCycle ==
  /\ pc \in {"DONE", "RAISED"}
  /\ cycle < MaxCycles
  /\ cycle' = cycle + 1
  /\ pc' = "INIT"
  /\ marker1' = <<>>
  /\ state1' = <<>>
  /\ state2' = <<>>
  /\ flags' = <<>>
  /\ result' = <<>>
  /\ trace' = <<>>
  /\ log' = <<>>
  /\ printed' = <<>>
  /\ returned' = <<>>
  /\ raised' = "none"
  /\ argsAtStart' = arguments
  /\ startArgs' = <<>>
  /\ startOutcome' = <<>>
  /\ UNCHANGED <<arguments, sent>>
  /\ UNCHANGED threadVars
  /\ UNCHANGED objectVars

\* The client process exits: the atexit hooks run, the daemon threads stop.
ProcessExit ==
  /\ pc \in {"DONE", "RAISED"}
  /\ pc' = "EXITED"
  /\ tailProc' = AtExit(tailProc, hooks)
  /\ UNCHANGED <<cycle, arguments, state1, state2, flags, result, trace,
                 startArgs, startOutcome, sent, log, printed, returned, raised,
                 argsAtStart, thread, hooks>>
  /\ UNCHANGED objectVars
  /\ UNCHANGED marker1

\* The client process is terminated without running its exit hooks (a
\* signal, os._exit) while it is blocked in the round-trip.
ProcessKilled ==
  /\ pc = "WAITING"
  /\ pc' = "KILLED"
  /\ UNCHANGED <<cycle, arguments, state1, state2, flags, result, trace,
                 startArgs, startOutcome, sent, log, printed, returned, raised,
                 argsAtStart>>
  /\ UNCHANGED threadVars
  /\ UNCHANGED objectVars
  /\ UNCHANGED marker1

\* ------------------------------------------------------ _read_stderr thread
mainVars ==
  <<marker1, pc, cycle, arguments, state1, state2, flags, result, trace, startArgs,
    startOutcome, sent, log, printed, returned, raised, argsAtStart>>

\* Mutant: Popen runs twice, leaving a second tail process behind.
TailPopenTwice(c) ==
  /\ pc \notin {"EXITED", "KILLED"}
  /\ thread[c] = "started"
  /\ tailProc' = [k \in Calls |->
                    IF k = c \/ k = c + 1 THEN "running" ELSE tailProc[k]]
  /\ thread' = [thread EXCEPT ![c] = "spawned"]
  /\ UNCHANGED hooks
  /\ UNCHANGED mainVars
  /\ UNCHANGED objectVars

\* Lines 30-34: subprocess.Popen(["tail", "-f", stderr_file]).
TailPopen(c) ==
  /\ pc \notin {"EXITED", "KILLED"}
  /\ thread[c] = "started"
  /\ tailProc' = [tailProc EXCEPT ![c] = "running"]
  /\ thread' = [thread EXCEPT ![c] = "spawned"]
  /\ UNCHANGED hooks
  /\ UNCHANGED mainVars
  /\ UNCHANGED objectVars

\* Mutant: line 35 left out.
TailRegisterNoHook(c) ==
  /\ pc \notin {"EXITED", "KILLED"}
  /\ thread[c] = "spawned"
  /\ thread' = [thread EXCEPT ![c] = "reading"]
  /\ UNCHANGED <<tailProc, hooks>>
  /\ UNCHANGED mainVars
  /\ UNCHANGED objectVars

\* Line 35: atexit.register(stderr_tail.terminate); line 36 then reads the
\* tail's output until it ends, which `tail -f` never does by itself.
TailRegister(c) ==
  /\ pc \notin {"EXITED", "KILLED"}
  /\ thread[c] = "spawned"
  /\ hooks' = hooks \cup {c}
  /\ thread' = [thread EXCEPT ![c] = "reading"]
  /\ UNCHANGED tailProc
  /\ UNCHANGED mainVars
  /\ UNCHANGED objectVars

Next ==
  \/ Probe
  \/ StartRun
  \/ Build
  \/ Probe2
  \/ CallClient
  \/ CallClientReturn
  \/ CallClientRaise
  \/ Classify
  \/ NextCycle
  \/ ProcessExit
  \/ ProcessKilled
  \/ \E c \in Calls : TailPopen(c)
  \/ \E c \in Calls : TailRegister(c)

Spec == Init /\ [][Next]_vars

\* One step of the main thread in which the collaborator it calls returns.
MainStep ==
  \/ Probe
  \/ StartRun
  \/ Build
  \/ Probe2
  \/ CallClient
  \/ CallClientReturn
  \/ Classify

\* One command object on one configuration.
LiveConfiguration ==
  [typeshed |-> S(<<"/","t","s">>), version_hash |-> S(<<"a","b","c">>),
   search_path |-> <<PathA, PathB>>]

InitLive ==
  /\ Init
  /\ configuration = LiveConfiguration
  /\ baseFlags = <<>>

\* _run is straight-line code on one thread: it keeps running as long as
\* the call it is in returns.
SpecLive == InitLive /\ [][Next]_vars /\ WF_vars(MainStep)

\* The cycles of one command object on one configuration, for what does not
\* depend on the configuration: _run reads it at lines 50-56 only, for the
\* tokens it appends to flags.
SpecCycle == InitLive /\ [][Next]_vars

\* Every configuration and every set of flags, for the request _run builds;
\* the arguments, which lines 46-63 do not read, are fixed.
InitRequest ==
  /\ Init
  /\ arguments = [terminal |-> FALSE, no_watchman |-> FALSE]

SpecRequest == InitRequest /\ [][Next]_vars

TypeOK ==
  /\ pc \in {"INIT", "BOOTSTRAPPING", "BUILDING", "PROBING2", "REQUESTING",
             "WAITING", "CLASSIFYING", "DONE", "RAISED", "EXITED",
             "KILLED"}
  /\ cycle \in Calls
  /\ arguments \in Arguments
  /\ configuration \in Configurations
  /\ raised \in {"none", "BootstrapError", "ClientException"}
  /\ hooks \subseteq Calls
\* ================================================================ claims
Ended == pc \in {"DONE", "RAISED", "EXITED"}
Has(seq, x) == \E i \in DOMAIN seq : seq[i] = x
\* The call of _call_client numbered c has returned or raised.
InvocationOver(c) ==
  \/ c < cycle /\ thread[c] # "none"
  \/ c = cycle /\ (result # <<>> \/ raised = "ClientException")
\* The round-trip of this cycle ended with a result whose check() raises.
CheckFailed == result # <<>> /\ CheckRaises(result[1])

\* C1: in every cycle, a DEAD first probe makes _run call Start.run exactly
\* once, before any _call_client; a non-DEAD first probe never calls it.
C1_BootstrapOnceIffDead ==
  /\ Count(trace, "start") <= 1
  /\ (state1 = <<DEAD>> /\ pc \notin {"INIT", "BOOTSTRAPPING"})
       => Count(trace, "start") = 1
  /\ state1 = <<DEAD>>
       => \A i \in DOMAIN trace :
            trace[i] = "call" => \E j \in 1..(i - 1) : trace[j] = "start"
  /\ (state1 # <<>> /\ state1 # <<DEAD>>) => ~Has(trace, "start")
  /\ state1 = <<>> => ~Has(trace, "start")

C1_Witness ==
  /\ cycle = 2
  /\ state1 = <<DEAD>>
  /\ trace = <<"probe", "start", "probe", "call">>

\* C2 as claimed: once an invocation of _call_client is over, the tail
\* process started for it is not running.
C2_TailReleasedOnReturn ==
  \A c \in Calls : InvocationOver(c) => tailProc[c] # "running"

\* C2 amended: the tail process is released by the exit hook of line 35 and
\* not by the return of the invocation: once the process has exited through
\* its exit hooks, every tail whose terminate was registered is terminated,
\* whatever the outcome of its invocation.
C2_TailReleasedByExitHook ==
  pc = "EXITED" =>
    \A c \in Calls : thread[c] = "reading" => tailProc[c] = "terminated"

C2_Witness ==
  /\ pc = "EXITED"
  /\ returned = <<FAILURE>>
  /\ tailProc[cycle] = "terminated"

\* C3 as claimed: every failed round-trip, a raising _call_client included,
\* ends the cycle with FAILURE and the restart guidance, and never raises.
C3_EveryFailureReturnsFailure ==
  (Ended /\ (CheckFailed \/ raised = "ClientException")) =>
    /\ returned = <<FAILURE>>
    /\ Has(log, MSG_RESTART)
    /\ raised = "none"

\* C3 amended: when the check of the returned result raises, the cycle
\* returns FAILURE, logs the restart guidance and raises nothing; when
\* _call_client itself raises, the exception leaves _run, which returns no
\* exit code and logs no guidance.
C3_CheckFailureReturnsFailure ==
  /\ (Ended /\ CheckFailed) =>
       /\ returned = <<FAILURE>>
       /\ Has(log, MSG_RESTART)
       /\ raised = "none"
  /\ raised = "ClientException" =>
       /\ returned = <<>>
       /\ ~Has(log, MSG_RESTART)
       /\ pc \in {"RAISED", "EXITED"}

C3_Witness ==
  /\ pc = "DONE"
  /\ CheckFailed
  /\ state1 # <<DEAD>>
  /\ returned = <<FAILURE>>

\* C4 as claimed: a bootstrap that fails ends the cycle with exit code
\* FAILURE and nothing raised.
C4_BootstrapFailureReturnsFailure ==
  (Ended /\ startOutcome # <<>> /\ startOutcome # <<"started">>) =>
    /\ returned = <<FAILURE>>
    /\ raised = "none"

\* C4 amended: an error raised by Start.run is not handled by _run: it
\* leaves _run, which returns no exit code, logs no guidance and sends no
\* request; a failure status returned by Start.run is ignored, the request
\* is sent and the exit code is decided by the round-trip alone.
C4_BootstrapFailurePropagates ==
  /\ startOutcome = <<"raise">> =>
       /\ pc \in {"RAISED", "EXITED"}
       /\ raised = "BootstrapError"
       /\ returned = <<>>
       /\ ~Has(trace, "call")
       /\ ~Has(log, MSG_RESTART)
       /\ ~Has(log, MSG_ERROR)
  /\ (startOutcome = <<"failed">> /\ Ended) =>
       /\ Count(trace, "call") = 1
       /\ raised # "BootstrapError"
       /\ returned # <<>> =>
            returned = <<IF result[1].valid THEN SUCCESS ELSE FAILURE>>

C4_Witness ==
  /\ startOutcome = <<"raise">>
  /\ pc = "RAISED"

C6_RequestTokenOrder ==
  \A k \in DOMAIN sent :
    LET r == sent[k]
        n == Len(baseFlags)
    IN /\ Len(r) \in {n + 5, n + 7}
       /\ r[1] = NAME
       /\ SubSeq(r, 2, n + 1) = baseFlags
       /\ r[n + 2] = TYPESHED_FLAG
       /\ r[n + 3] =
            (IF configuration.typeshed.tag = "none"
             THEN <<"N","o","n","e">> ELSE configuration.typeshed.val)
       /\ r[n + 4] = VERSION_FLAG
       /\ r[n + 5] = configuration.version_hash.val
       /\ Len(r) = n + 7 => r[n + 6] = SEARCH_PATH_FLAG
       /\ \A i \in DOMAIN r : r[i] = SEARCH_PATH_FLAG => i > n + 5

C6_Witness ==
  /\ sent # <<>>
  /\ baseFlags # <<>>
  /\ configuration.typeshed = None
  /\ configuration.search_path = <<PathA, PathB>>

\* Where the i-th part starts in the comma-joined text, counted from 0.
RECURSIVE Offset(_, _)
Offset(parts, i) ==
  IF i = 1 THEN 0 ELSE Offset(parts, i - 1) + Len(parts[i - 1]) + 1

\* text is the parts in their order, a comma between neighbours.
CommaJoined(text, parts) ==
  LET n == Len(parts)
  IN /\ n >= 1
     /\ Len(text) = Offset(parts, n) + Len(parts[n])
     /\ \A i \in 1..n :
          SubSeq(text, Offset(parts, i) + 1, Offset(parts, i) + Len(parts[i]))
            = parts[i]
     /\ \A i \in 2..n : text[Offset(parts, i)] = ","

\* C7: a request carries "-search-path" exactly when the configured search
\* path is non-empty; it then occurs once, as the last but one token, right
\* after the version-hash pair, followed by the entries joined by commas in
\* their configured order.
C7_SearchPathFlag ==
  \A k \in DOMAIN sent :
    LET r == sent[k]
        sp == configuration.search_path
        n == Len(r)
    IN /\ Has(r, SEARCH_PATH_FLAG) <=> sp # <<>>
       /\ sp # <<>> =>
            /\ Count(r, SEARCH_PATH_FLAG) = 1
            /\ r[n - 1] = SEARCH_PATH_FLAG
            /\ r[n - 3] = VERSION_FLAG
            /\ r[n - 2] = configuration.version_hash.val
            /\ CommaJoined(r[n], sp)

C7_Witness ==
  /\ sent # <<>>
  /\ configuration.search_path = <<PathA, PathB, PathA>>
  /\ sent[1][Len(sent[1])] = <<"/","a",",","/","b",",","/","a">>

C9_ExplicitNoWatchmanHonoured ==
  startArgs # <<>> =>
    /\ startArgs[1].terminal = FALSE
    /\ startArgs[1].no_watchman = argsAtStart.no_watchman

\* C9 amended: the arguments Start is given always have terminal = False and
\* no_watchman = False: watching is enabled on every bootstrap, also when
\* the caller's arguments had no_watchman set.
C9_WatchingAlwaysEnabled ==
  startArgs # <<>> =>
    /\ startArgs[1].terminal = FALSE
    /\ startArgs[1].no_watchman = FALSE

C9_Witness ==
  /\ startArgs # <<>>
  /\ argsAtStart.no_watchman = TRUE
  /\ argsAtStart.terminal = TRUE

\* C10 as claimed: every cycle that has ended made exactly one round-trip.
C10_ExactlyOneRoundTrip == Ended => Count(trace, "call") = 1

\* C10 amended: a cycle makes at most one round-trip, and exactly one unless
\* Start.run raised and ended the cycle before the request; nothing is
\* started or sent after the round-trip, and a result whose check fails
\* only leads to the restart guidance and FAILURE.
C10_NoRetry ==
  /\ Count(trace, "call") <= 1
  /\ (Ended /\ raised # "BootstrapError") => Count(trace, "call") = 1
  /\ (Ended /\ raised = "BootstrapError") => Count(trace, "call") = 0
  /\ Has(trace, "call") => trace[Len(trace)] = "call"
  /\ (Ended /\ CheckFailed) =>
       /\ returned = <<FAILURE>>
       /\ Has(log, MSG_RESTART)

C10_Witness ==
  /\ cycle = 2
  /\ pc = "DONE"
  /\ CheckFailed
  /\ state1 = <<DEAD>>
  /\ Count(trace, "call") = 1
\* The tail processes that are alive.
RunningTails == {c \in Calls : tailProc[c] = "running"}

\* C11 as claimed: never are two tail processes started by this client
\* alive at once.
C11_AtMostOneTailAlive == Cardinality(RunningTails) <= 1

\* C11 amended: an invocation starts at most one tail process, and only
\* from its own _read_stderr; the tails of earlier invocations stay alive,
\* so up to as many tails are alive at once as invocations were made.
C11_OneTailPerInvocation ==
  /\ Cardinality(RunningTails) <= Len(sent)
  /\ \A c \in Calls :
       tailProc[c] # "none" =>
         /\ c <= cycle
         /\ thread[c] \in {"spawned", "reading"}

C11_Witness ==
  /\ Len(sent) = 2
  /\ Cardinality(RunningTails) = 2
\* C12 as claimed: once the client process is gone, by exit or by unexpected
\* termination, no tail process it started is running.
C12_NoTailSurvivesProcess == pc \in {"EXITED", "KILLED"} => RunningTails = {}

\* C12 amended: tail processes are terminated by the exit hooks and by
\* nothing else: after an exit through the hooks the only tails left running
\* are those started but not yet registered (between lines 30 and 35), and
\* after a termination that runs no exit hooks no tail has been terminated.
C12_TailsEndOnlyByExitHooks ==
  /\ pc = "EXITED" =>
       \A c \in RunningTails : thread[c] = "spawned" /\ c \notin hooks
  /\ pc # "EXITED" => \A c \in Calls : tailProc[c] # "terminated"

C12_Witness ==
  /\ pc = "KILLED"
  /\ tailProc[1] = "running"
  /\ 1 \in hooks
  /\ cycle = 2
Phase(p) ==
  CASE p = "INIT" -> "INIT"
    [] p = "BOOTSTRAPPING" -> "BOOTSTRAPPING"
    [] p \in {"BUILDING", "PROBING2", "REQUESTING", "WAITING", "CLASSIFYING"}
         -> "REQUESTING"
    [] p = "DONE" -> "DONE"
    [] OTHER -> "OUT"

PhaseOrder ==
  {<<"INIT", "BOOTSTRAPPING">>, <<"INIT", "REQUESTING">>,
   <<"BOOTSTRAPPING", "REQUESTING">>, <<"REQUESTING", "REQUESTING">>,
   <<"REQUESTING", "DONE">>, <<"DONE", "INIT">>}

BootstrapReturned == startOutcome # <<>> /\ startOutcome # <<"raise">>

\* C16: once Start.run has returned, the cycle goes on to build and send
\* the request whatever the second probe finds: it is never held at the
\* probe, and a server still DEAD at the second probe gets the request too.
C16_BootstrapFireAndForget ==
  /\ (BootstrapReturned /\ pc = "BUILDING") => ENABLED Build
  /\ (BootstrapReturned /\ pc = "PROBING2") => state2 = <<>> /\ ENABLED Probe2
  /\ (BootstrapReturned /\ pc = "REQUESTING") => ENABLED CallClient
  /\ (BootstrapReturned /\ Ended) => Count(trace, "call") = 1
  /\ (BootstrapReturned /\ Has(trace, "call")) =>
       /\ Count(trace, "start") = 1
       /\ state2 # <<>>
       /\ sent[Len(sent)] = Request(NAME, flags)

C16_Witness ==
  /\ startOutcome = <<"started">>
  /\ state2 = <<DEAD>>
  /\ pc = "WAITING"
  /\ Has(trace, "call")
\* C17: a cycle probes twice; the second probe decides only whether the
\* waiting message is logged. Start.run is called only when the first probe
\* found DEAD, so not for a server found alive first and DEAD second, and the
\* request is sent whatever the two probes found.
C17_SecondProbeOnlyLogs ==
  /\ Count(trace, "probe") <= 2
  /\ Has(trace, "call") => Count(trace, "probe") = 2
  /\ Has(log, MSG_WAITING) <=> (state2 # <<>> /\ state2 # <<DEAD>>)
  /\ Has(trace, "start") => state1 = <<DEAD>>
  /\ (state1 # <<>> /\ state1 # <<DEAD>>) =>
       /\ ~Has(trace, "start")
       /\ ~Has(log, MSG_STARTING)
  /\ (state2 # <<>> /\ pc # "REQUESTING") => Count(trace, "call") = 1

C17_Witness ==
  /\ state1 = <<"RUNNING">>
  /\ state2 = <<DEAD>>
  /\ pc = "DONE"
  /\ trace = <<"probe", "probe", "call">>

\* C18: a cycle whose first probe is not DEAD leaves the arguments as they
\* were; one whose first probe is DEAD leaves terminal and no_watchman False
\* on the object Start is given, which is the caller's, to the end of the
\* cycle and into the next; the configuration is never changed.
C18_ArgumentsFrame ==
  /\ (state1 # <<>> /\ state1 # <<DEAD>>) => arguments = argsAtStart
  /\ state1 = <<DEAD>> =>
       /\ arguments = [terminal |-> FALSE, no_watchman |-> FALSE]
       /\ startArgs # <<>> => startArgs[1] = arguments
  /\ pc = "INIT" => argsAtStart = arguments
  /\ configuration = LiveConfiguration

C18_WitnessDead ==
  /\ pc = "DONE"
  /\ state1 = <<DEAD>>
  /\ argsAtStart = [terminal |-> TRUE, no_watchman |-> TRUE]
  /\ arguments = [terminal |-> FALSE, no_watchman |-> FALSE]

\* C19: the restart guidance is logged exactly in the cycles that return
\* FAILURE, once; a cycle whose result failed its check prints no
\* diagnostic records; SUCCESS and the guidance never meet in one cycle.
C19_GuidanceIffFailure ==
  /\ returned = <<FAILURE>> <=> Has(log, MSG_RESTART)
  /\ Count(log, MSG_RESTART) <= 1
  /\ CheckFailed => printed = <<>>
  /\ returned = <<SUCCESS>> => ~Has(log, MSG_RESTART) /\ ~Has(log, MSG_ERROR)
  /\ pc = "DONE" => returned \in {<<SUCCESS>>, <<FAILURE>>}

C19_Witness ==
  /\ pc = "DONE"
  /\ returned = <<FAILURE>>
  /\ result[1].errors = <<"d1", "d2">>
  /\ printed = <<>>
  /\ Has(log, MSG_RESTART)
====
